---- MODULE Spec2Model ----
(***************************************************************************)
(* Model of tensorflow/compiler/tf2xla/kernels/data_format_ops.cc:         *)
(* the XLA kernels DataFormatDimMapOp and DataFormatVecPermuteOp.          *)
(*                                                                         *)
(* A format string is a sequence of one-character strings.  Positions in   *)
(* the code are 0-based; a sequence s is read at s[i + 1].  A tensor is a  *)
(* record [dtype, shape, data] with data in row-major order.  An integer   *)
(* element is kept as two signed 32-bit words [hi, lo]: lo is the low word *)
(* read as int32, hi the high word (the sign extension of lo for an int32  *)
(* element), so that an int64 element keeps its width.                     *)
(***************************************************************************)
EXTENDS Integers, Sequences, FiniteSets, TLC

VARIABLES pc, op, src_format, dst_format, ctor, dst_idx, src_format_,
          dst_format_, input, src_indices, dst_indices, status, outputs,
          reverse, reverse_status, reverse_outputs

vars == <<pc, op, src_format, dst_format, ctor, dst_idx, src_format_,
          dst_format_, input, src_indices, dst_indices, status, outputs,
          reverse, reverse_status, reverse_outputs>>

(***************************************************************************)
(* Bounds of the model.                                                    *)
(***************************************************************************)
\* DataFormatDimMap input elements are drawn from -MaxIndex..MaxIndex
\* (plus the extreme values listed in ExtremeWords).
MaxIndex == 6
\* DataFormatVecPermute inputs of a valid shape hold values in 0..MaxVal.
MaxVal == 1
\* DataFormatVecPermute input shapes have rank 0..MaxRank ...
MaxRank == 3
\* ... and every dimension in 1..MaxDim.
MaxDim == 5

(***************************************************************************)
(* Program constants.                                                      *)
(***************************************************************************)
FormatLen == 4
Unset == -1
INT32_MAX == 2147483647
INT32_MIN == -INT32_MAX - 1

OK == "OK"
InvalidArgument == "InvalidArgument"
DimMap == "DataFormatDimMap"
VecPermute == "DataFormatVecPermute"
DT_INT32 == "DT_INT32"
DT_INT64 == "DT_INT64"

Pos == 0..(FormatLen - 1)

(***************************************************************************)
(* Attribute values offered to the constructors.                           *)
(***************************************************************************)
Symbols == {"N", "H", "W", "C"}

OtherFormats ==
  { <<>>, <<"N", "H", "W">>, <<"N", "D", "H", "W", "C">>,
    <<"N", "C", "H", "W", "C">>, <<"N", "H", "W", "D">>,
    <<"D", "N", "H", "W">> }

Formats == [1..FormatLen -> Symbols] \cup OtherFormats

NHWC == <<"N", "H", "W", "C">>
NCHW == <<"N", "C", "H", "W">>
HWNC == <<"H", "W", "N", "C">>
HWCN == <<"H", "W", "C", "N">>

\* FormatFromString (tensorflow/core/util/tensor_format.h): the layout
\* names it recognises.  Of these only the first four have 4 characters.
FormatFromString(format_str) ==
  format_str \in { NHWC, NCHW, HWNC, HWCN,
                   <<"N", "D", "H", "W", "C">>, <<"N", "C", "D", "H", "W">> }

Min(S) == CHOOSE m \in S : \A n \in S : m <= n

(***************************************************************************)
(* DataFormatDimMapOp constructor.                                         *)
(***************************************************************************)
InitDstIdx == [i \in Pos |-> Unset]

\* The inner loop over j with its break: the first j with
\* dst_format[j] == src_format[i] is stored in dst_idx_[i].
DimMapMatch(src, dst, i, tbl) ==
  LET hits == {j \in 0..(Len(dst) - 1) : dst[j + 1] = src[i + 1]}
  IN  IF hits = {} THEN tbl ELSE [tbl EXCEPT ![i] = Min(hits)]

\* The outer loop over i, from position i on, with the OP_REQUIRES that
\* returns from the constructor at the first unmatched source symbol.
RECURSIVE DimMapScan(_, _, _, _)
DimMapScan(src, dst, i, tbl) ==
  IF i >= Len(src)
  THEN [status |-> OK, error |-> "none", dst_idx |-> tbl, scanned |-> i]
  ELSE LET t == DimMapMatch(src, dst, i, tbl)
       IN  IF t[i] = Unset
           THEN [status |-> InvalidArgument, error |-> "not_a_permutation",
                 dst_idx |-> t, scanned |-> i + 1]
           ELSE DimMapScan(src, dst, i + 1, t)

\* Variant: the length of dst_format is not checked.
DataFormatDimMapOp_NoDstLength(src, dst) ==
  IF Len(src) # FormatLen
  THEN [status |-> InvalidArgument, error |-> "src_length",
        dst_idx |-> InitDstIdx, scanned |-> 0]
  ELSE DimMapScan(src, dst, 0, InitDstIdx)

DataFormatDimMapOp(src, dst) ==
  IF Len(src) # FormatLen
  THEN [status |-> InvalidArgument, error |-> "src_length",
        dst_idx |-> InitDstIdx, scanned |-> 0]
  ELSE IF Len(dst) # FormatLen
  THEN [status |-> InvalidArgument, error |-> "dst_length",
        dst_idx |-> InitDstIdx, scanned |-> 0]
  ELSE DimMapScan(src, dst, 0, InitDstIdx)

(***************************************************************************)
(* DataFormatVecPermuteOp constructor.  src_format_ is written by the      *)
(* first GetAttr, dst_format_ only when the checks on src_format_ passed.  *)
(***************************************************************************)
NoFormat == <<>>

DataFormatVecPermuteOp(src, dst) ==
  IF Len(src) # FormatLen
  THEN [status |-> InvalidArgument, error |-> "src_length",
        src_format_ |-> src, dst_format_ |-> NoFormat, scanned |-> 0]
  ELSE IF ~FormatFromString(src)
  THEN [status |-> InvalidArgument, error |-> "src_invalid",
        src_format_ |-> src, dst_format_ |-> NoFormat, scanned |-> 0]
  ELSE IF Len(dst) # FormatLen
  THEN [status |-> InvalidArgument, error |-> "dst_length",
        src_format_ |-> src, dst_format_ |-> dst, scanned |-> 0]
  ELSE IF ~FormatFromString(dst)
  THEN [status |-> InvalidArgument, error |-> "dst_invalid",
        src_format_ |-> src, dst_format_ |-> dst, scanned |-> 0]
  ELSE [status |-> OK, error |-> "none",
        src_format_ |-> src, dst_format_ |-> dst, scanned |-> 0]

(***************************************************************************)
(* Integer elements and the XLA primitives used by Compile.                *)
(***************************************************************************)
SignExt(n) == IF n < 0 THEN -1 ELSE 0

\* An int32 value n as a tensor element.
I32(n) == [hi |-> SignExt(n), lo |-> n]

\* xla::ConvertElementType(x, xla::S32): the low 32 bits are kept.
ConvertToS32(e) == e.lo

\* xla::ConvertElementType(output, input_xla_type(0)) of an S32 value:
\* sign extension (the identity for an int32 tensor).
ConvertFromS32(n, dtype) == [hi |-> SignExt(n), lo |-> n]

\* S32 addition of a and a non-negative b, wrapping modulo 2^32.
Add32(a, b) ==
  IF a > INT32_MAX - b
  THEN (a - INT32_MAX) + (b - 1) + INT32_MIN
  ELSE a + b

\* S32 remainder with a positive divisor: the sign follows the dividend.
Rem(a, b) ==
  IF a >= 0 THEN a % b
  ELSE LET m == a % b IN IF m = 0 THEN 0 ELSE m - b

Clamp(i, n) == IF i < 0 THEN 0 ELSE IF i > n - 1 THEN n - 1 ELSE i

RECURSIVE Prod(_)
Prod(shape) == IF shape = <<>> THEN 1 ELSE Head(shape) * Prod(Tail(shape))

RECURSIVE Flatten(_)
Flatten(ss) == IF ss = <<>> THEN <<>> ELSE Head(ss) \o Flatten(Tail(ss))

\* xla::TorchIndexSelect(input, index, dim = 0) on row-major data whose
\* first-axis slices hold `slice` elements: one slice per index, in index
\* order.  An out-of-range index is clamped into the first axis, as the
\* XLA gather does.
TorchIndexSelect(data, slice, index) ==
  LET n == Len(data) \div slice
  IN  Flatten([k \in 1..Len(index) |->
                 SubSeq(data, Clamp(index[k], n) * slice + 1,
                        Clamp(index[k], n) * slice + slice)])

(***************************************************************************)
(* DataFormatDimMapOp::Compile.                                            *)
(***************************************************************************)
\* Variant: the offset four is not added before the remainder.
NormalizeIndex_NoOffset(e) == Rem(ConvertToS32(e), FormatLen)

\* (ConvertElementType(Input(0), S32) + four) % four, for one element.
NormalizeIndex(e) == Rem(Add32(ConvertToS32(e), FormatLen), FormatLen)

\* Variant: the normalized indices are returned without the table lookup.
DimMapCompile_NoGather(tbl, in) ==
  LET src_idx == [k \in 1..Len(in.data) |-> NormalizeIndex(in.data[k])]
  IN  [status |-> OK,
       src_indices |-> src_idx,
       outputs |-> << [dtype |-> in.dtype, shape |-> in.shape,
                       data |-> [k \in 1..Len(src_idx) |->
                                   ConvertFromS32(src_idx[k], in.dtype)]] >>]

DimMapCompile(tbl, in) ==
  LET dst_indices_c == [k \in 1..FormatLen |-> tbl[k - 1]]
      src_idx == [k \in 1..Len(in.data) |-> NormalizeIndex(in.data[k])]
      output == TorchIndexSelect(dst_indices_c, 1, src_idx)
  IN  [status |-> OK,
       src_indices |-> src_idx,
       outputs |-> << [dtype |-> in.dtype, shape |-> in.shape,
                       data |-> [k \in 1..Len(output) |->
                                   ConvertFromS32(output[k], in.dtype)]] >>]

(***************************************************************************)
(* DataFormatVecPermuteOp::Compile.                                        *)
(***************************************************************************)
\* The inner loop over j with its break: the first j with
\* src_format_[i] == dst_format_[j] gets dst_indices[j] = i.  The local
\* array is a function on the positions written so far.
\* Variant: the inner loop starts at j = i.
VecPermuteMatch_FromI(src, dst, i, d) ==
  LET hits == {j \in Pos : j >= i /\ src[i + 1] = dst[j + 1]}
  IN  IF hits = {} THEN d
      ELSE [k \in (DOMAIN d) \cup {Min(hits)} |->
              IF k = Min(hits) THEN i ELSE d[k]]

VecPermuteMatch(src, dst, i, d) ==
  LET hits == {j \in Pos : src[i + 1] = dst[j + 1]}
  IN  IF hits = {} THEN d
      ELSE [k \in (DOMAIN d) \cup {Min(hits)} |->
              IF k = Min(hits) THEN i ELSE d[k]]

RECURSIVE VecPermuteScan(_, _, _, _)
VecPermuteScan(src, dst, i, d) ==
  IF i >= FormatLen THEN d
  ELSE VecPermuteScan(src, dst, i + 1, VecPermuteMatch(src, dst, i, d))

\* Variant: the mapping is stored in the direction of DataFormatDimMap,
\* dst_indices[i] = j.
RECURSIVE VecPermuteScan_Forward(_, _, _, _)
VecPermuteScan_Forward(src, dst, i, d) ==
  IF i >= FormatLen THEN d
  ELSE LET hits == {j \in Pos : src[i + 1] = dst[j + 1]}
       IN  VecPermuteScan_Forward(src, dst, i + 1,
             IF hits = {} THEN d
             ELSE [k \in (DOMAIN d) \cup {i} |->
                     IF k = i THEN Min(hits) ELSE d[k]])

VecPermuteIndices_Forward(src, dst) == VecPermuteScan_Forward(src, dst, 0, <<>>)

\* int32 dst_indices[4] after the loops; no position is written yet when
\* the loops start.
VecPermuteIndices(src, dst) == VecPermuteScan(src, dst, 0, <<>>)

\* What a read of the local array can yield: the value written, or any
\* int32 for a position that was never written.
Garbage == {INT32_MIN, -1, 0, 5}

ReadIndices(d) ==
  LET S == [j \in Pos |-> IF j \in DOMAIN d THEN {d[j]} ELSE Garbage]
  IN  {<<a, b, c, e>> : a \in S[0], b \in S[1], c \in S[2], e \in S[3]}

\* Variant: the second dimension of a rank-2 input is not checked.
VecPermuteShapeError_NoSecondDim(shape) ==
  IF ~(Len(shape) = 1 \/ Len(shape) = 2) THEN "rank"
  ELSE IF shape[1] # 4 THEN "first_dimension"
  ELSE "none"

\* The shape checks, in the order of the code.
VecPermuteShapeError(shape) ==
  IF ~(Len(shape) = 1 \/ Len(shape) = 2) THEN "rank"
  ELSE IF shape[1] # 4 THEN "first_dimension"
  ELSE IF Len(shape) = 2 /\ shape[2] # 2 THEN "second_dimension"
  ELSE "none"

\* Variant: the gather uses a fixed rotation of the slices and ignores
\* the index list.
VecPermuteCompile_NoPermute(in, indices) ==
  IF VecPermuteShapeError(in.shape) # "none"
  THEN [status |-> InvalidArgument, error |-> VecPermuteShapeError(in.shape),
        outputs |-> <<>>]
  ELSE [status |-> OK, error |-> "none",
        outputs |-> << [dtype |-> in.dtype,
                        shape |-> <<Len(indices)>> \o Tail(in.shape),
                        data |-> TorchIndexSelect(in.data,
                                                  Prod(Tail(in.shape)),
                                                  <<1, 2, 3, 0>>)] >>]

\* Compile with the gather indices `indices` read from dst_indices.
VecPermuteCompile(in, indices) ==
  IF VecPermuteShapeError(in.shape) # "none"
  THEN [status |-> InvalidArgument, error |-> VecPermuteShapeError(in.shape),
        outputs |-> <<>>]
  ELSE [status |-> OK, error |-> "none",
        outputs |-> << [dtype |-> in.dtype,
                        shape |-> <<Len(indices)>> \o Tail(in.shape),
                        data |-> TorchIndexSelect(in.data,
                                                  Prod(Tail(in.shape)),
                                                  indices)] >>]

(***************************************************************************)
(* Inputs offered to Compile.                                              *)
(***************************************************************************)
Tensor(dtype, shape, ints) ==
  [dtype |-> dtype, shape |-> shape,
   data |-> [k \in 1..Len(ints) |-> I32(ints[k])]]

ExtremeWords == {INT32_MAX, INT32_MAX - 2, INT32_MAX - 3, INT32_MAX - 4,
                 INT32_MIN}

\* int64 elements outside the int32 range, and int64 elements in [-4, 4).
WideElems ==
  { [hi |-> 0, lo |-> -1], [hi |-> 1, lo |-> 0], [hi |-> 1, lo |-> -5],
    [hi |-> -2, lo |-> 2], [hi |-> -1, lo |-> -4], [hi |-> 0, lo |-> 3] }

DimMapInputs ==
  { [dtype |-> DT_INT32, shape |-> <<>>, data |-> <<I32(v)>>] :
      v \in (-MaxIndex..MaxIndex) \cup ExtremeWords }
  \cup { [dtype |-> DT_INT64, shape |-> <<>>, data |-> <<e>>] : e \in WideElems }
  \cup { Tensor(DT_INT32, <<4>>, <<0, 1, 2, 3>>),
         Tensor(DT_INT32, <<4>>, <<3, 2, 1, 0>>),
         Tensor(DT_INT64, <<4>>, <<-1, -2, -3, -4>>),
         Tensor(DT_INT32, <<2, 3>>, <<-4, 3, 1, -2, 0, 2>>) }

Shapes == UNION {[1..r -> 1..MaxDim] : r \in 0..MaxRank}

ValidShapes == {<<4>>, <<4, 2>>}

VecPermuteInputs ==
  { [dtype |-> DT_INT32, shape |-> sh, data |-> d] :
      sh \in {<<4>>}, d \in [1..4 -> {I32(v) : v \in 0..MaxVal}] }
  \cup { [dtype |-> DT_INT32, shape |-> sh, data |-> d] :
      sh \in {<<4, 2>>}, d \in [1..8 -> {I32(v) : v \in 0..MaxVal}] }
  \cup { [dtype |-> DT_INT32, shape |-> sh,
          data |-> [k \in 1..Prod(sh) |-> I32(0)]] :
      sh \in Shapes \ ValidShapes }
  \cup { Tensor(DT_INT32, <<4>>, <<10, 20, 30, 40>>),
         Tensor(DT_INT64, <<4>>, <<10, 20, 30, 40>>),
         Tensor(DT_INT64, <<4, 2>>, <<10, 11, 20, 21, 30, 31, 40, 41>>) }

NoTensor == [dtype |-> "none", shape |-> <<>>, data |-> <<>>]
NoCtor == [status |-> "none", error |-> "none", scanned |-> 0]
NoIndices == <<>>

Init ==
  /\ pc = "start"
  /\ op = "none"
  /\ src_format = NoFormat
  /\ dst_format = NoFormat
  /\ ctor = NoCtor
  /\ dst_idx = InitDstIdx
  /\ src_format_ = NoFormat
  /\ dst_format_ = NoFormat
  /\ input = NoTensor
  /\ src_indices = NoIndices
  /\ dst_indices = NoIndices
  /\ status = "none"
  /\ outputs = <<>>
  /\ reverse = NoCtor
  /\ reverse_status = "none"
  /\ reverse_outputs = <<>>

\* The framework instantiates a DataFormatDimMap node with attributes
\* (src, dst).
ConstructDimMap ==
  /\ pc = "start"
  /\ \E src \in Formats, dst \in Formats :
       LET k == DataFormatDimMapOp(src, dst)
       IN  /\ op' = DimMap
           /\ src_format' = src
           /\ dst_format' = dst
           /\ ctor' = [status |-> k.status, error |-> k.error,
                       scanned |-> k.scanned]
           /\ dst_idx' = k.dst_idx
           /\ pc' = IF k.status = OK THEN "constructed" ELSE "construct_failed"
  /\ UNCHANGED <<src_format_, dst_format_, input, src_indices, dst_indices,
                 status, outputs, reverse, reverse_status, reverse_outputs>>

\* The framework instantiates a DataFormatVecPermute node with attributes
\* (src, dst).
ConstructVecPermute ==
  /\ pc = "start"
  /\ \E src \in Formats, dst \in Formats :
       LET k == DataFormatVecPermuteOp(src, dst)
       IN  /\ op' = VecPermute
           /\ src_format' = src
           /\ dst_format' = dst
           /\ ctor' = [status |-> k.status, error |-> k.error,
                       scanned |-> k.scanned]
           /\ src_format_' = k.src_format_
           /\ dst_format_' = k.dst_format_
           /\ pc' = IF k.status = OK THEN "constructed" ELSE "construct_failed"
  /\ UNCHANGED <<dst_idx, input, src_indices, dst_indices, status, outputs,
                 reverse, reverse_status, reverse_outputs>>

\* DataFormatDimMapOp::Compile on one input tensor.
CompileDimMap ==
  /\ pc = "constructed"
  /\ op = DimMap
  /\ \E in \in DimMapInputs :
       LET r == DimMapCompile(dst_idx, in)
       IN  /\ input' = in
           /\ src_indices' = r.src_indices
           /\ status' = r.status
           /\ outputs' = r.outputs
  /\ pc' = "compiled"
  /\ UNCHANGED <<op, src_format, dst_format, ctor, dst_idx, src_format_,
                 dst_format_, dst_indices, reverse, reverse_status,
                 reverse_outputs>>

\* DataFormatVecPermuteOp::Compile on one input tensor.
CompileVecPermute ==
  /\ pc = "constructed"
  /\ op = VecPermute
  /\ \E in \in VecPermuteInputs :
       /\ input' = in
       /\ IF VecPermuteShapeError(in.shape) # "none"
          THEN /\ dst_indices' = dst_indices
               /\ status' = VecPermuteCompile(in, NoIndices).status
               /\ outputs' = VecPermuteCompile(in, NoIndices).outputs
          ELSE /\ dst_indices' = VecPermuteIndices(src_format_, dst_format_)
               /\ \E indices \in ReadIndices(dst_indices') :
                    /\ status' = VecPermuteCompile(in, indices).status
                    /\ outputs' = VecPermuteCompile(in, indices).outputs
  /\ pc' = "compiled"
  /\ UNCHANGED <<op, src_format, dst_format, ctor, dst_idx, src_format_,
                 dst_format_, src_indices, reverse, reverse_status,
                 reverse_outputs>>

\* Round trip, first half: a second DataFormatVecPermute kernel is
\* constructed with the format attributes of the first one swapped.
ConstructReverse ==
  /\ pc = "compiled"
  /\ op = VecPermute
  /\ status = OK
  /\ reverse' = DataFormatVecPermuteOp(dst_format, src_format)
  /\ pc' = IF reverse'.status = OK THEN "reverse_constructed"
           ELSE "reverse_failed"
  /\ UNCHANGED <<op, src_format, dst_format, ctor, dst_idx, src_format_,
                 dst_format_, input, src_indices, dst_indices, status,
                 outputs, reverse_status, reverse_outputs>>

\* Round trip, second half: the second kernel compiles the output of the
\* first.
CompileReverse ==
  /\ pc = "reverse_constructed"
  /\ \E indices \in ReadIndices(VecPermuteIndices(reverse.src_format_,
                                                  reverse.dst_format_)) :
       /\ reverse_status' = VecPermuteCompile(outputs[1], indices).status
       /\ reverse_outputs' = VecPermuteCompile(outputs[1], indices).outputs
  /\ pc' = "reverse_compiled"
  /\ UNCHANGED <<op, src_format, dst_format, ctor, dst_idx, src_format_,
                 dst_format_, input, src_indices, dst_indices, status,
                 outputs, reverse>>

Next ==
  \/ ConstructDimMap
  \/ ConstructVecPermute
  \/ CompileDimMap
  \/ CompileVecPermute
  \/ ConstructReverse
  \/ CompileReverse

Spec == Init /\ [][Next]_vars

(***************************************************************************)
(* Properties.                                                             *)
(***************************************************************************)
Count(s, c) == Cardinality({i \in 1..Len(s) : s[i] = c})

\* a and b hold the same symbols, each the same number of times.
IsPermutationOf(a, b) ==
  /\ Len(a) = Len(b)
  /\ \A i \in 1..Len(a) : Count(a, a[i]) = Count(b, a[i])

Ints(t) == [k \in 1..Len(t.data) |-> t.data[k].lo]

\* The element holds a value in [-4, 4).
InIndexRange(e) == e.hi = SignExt(e.lo) /\ e.lo \in -4..3

\* The j-th slice of tensor t along its first axis.
Slice(t, j) ==
  LET S == Prod(Tail(t.shape))
  IN  SubSeq(t.data, j * S + 1, j * S + S)

DimMapCompiled == pc = "compiled" /\ op = DimMap
VecPermuteCompiled == pc = "compiled" /\ op = VecPermute

\* C1: a constructed DataFormatDimMap maps every input element v in [-4,4)
\* to dst_idx[(v + 4) mod 4], where dst_idx[i] is a position of src[i] in
\* dst; the output has the shape of the input; NHWC -> NCHW sends
\* [0,1,2,3] to [0,2,3,1] and [-1,-2,-3,-4] to the image of [3,2,1,0].
C1_DimMapRemap ==
  DimMapCompiled =>
    /\ Len(outputs) = 1
    /\ outputs[1].shape = input.shape
    /\ Len(outputs[1].data) = Len(input.data)
    /\ \A i \in Pos : dst_format[dst_idx[i] + 1] = src_format[i + 1]
    /\ \A k \in 1..Len(input.data) :
         InIndexRange(input.data[k]) =>
           outputs[1].data[k] = I32(dst_idx[(input.data[k].lo + 4) % 4])
    /\ (src_format = NHWC /\ dst_format = NCHW) =>
         /\ Ints(input) = <<0, 1, 2, 3>> => Ints(outputs[1]) = <<0, 2, 3, 1>>
         /\ Ints(input) = <<3, 2, 1, 0>> => Ints(outputs[1]) = <<1, 3, 2, 0>>
         /\ Ints(input) = <<-1, -2, -3, -4>> =>
              Ints(outputs[1]) = <<1, 3, 2, 0>>

C1_Witness ==
  /\ DimMapCompiled
  /\ src_format = NHWC /\ dst_format = NCHW
  /\ Ints(input) = <<-1, -2, -3, -4>>
  /\ Ints(outputs[1]) = <<1, 3, 2, 0>>

\* C2: for an input of shape [4] or [4,2], slice j of the output of
\* DataFormatVecPermute is the input slice i with src_format[i] =
\* dst_format[j], the elements of a slice keeping their order;
\* NHWC -> NCHW sends [10,20,30,40] to [10,40,20,30].
C2_VecPermuteSlices ==
  (VecPermuteCompiled /\ status = OK) =>
    /\ Len(outputs) = 1
    /\ outputs[1].shape = input.shape
    /\ \A j \in Pos :
         /\ \E i \in Pos : src_format[i + 1] = dst_format[j + 1]
         /\ \A i \in Pos :
              src_format[i + 1] = dst_format[j + 1] =>
                Slice(outputs[1], j) = Slice(input, i)
    /\ (src_format = NHWC /\ dst_format = NCHW
        /\ Ints(input) = <<10, 20, 30, 40>>) =>
         Ints(outputs[1]) = <<10, 40, 20, 30>>

C2_Witness ==
  /\ VecPermuteCompiled
  /\ src_format = NHWC /\ dst_format = NCHW
  /\ input.shape = <<4, 2>>
  /\ Ints(input) = <<10, 11, 20, 21, 30, 31, 40, 41>>
  /\ Ints(outputs[1]) = <<10, 11, 40, 41, 20, 21, 30, 31>>

\* C3: for 4-symbol src and dst that are not permutations of each other,
\* construction of either kernel fails with an invalid-format error.
C3_NonPermutationRejected ==
  (pc # "start" /\ Len(src_format) = FormatLen /\ Len(dst_format) = FormatLen
   /\ ~IsPermutationOf(src_format, dst_format)) =>
    /\ pc = "construct_failed"
    /\ ctor.status = InvalidArgument

\* C4: whenever construction of DataFormatDimMap succeeds, dst_idx is a
\* bijection on {0,1,2,3}.
C4_DstIdxBijection ==
  (op = DimMap /\ ctor.status = OK) =>
    /\ \A i \in Pos : dst_idx[i] \in Pos
    /\ \A i, k \in Pos : i # k => dst_idx[i] # dst_idx[k]

\* The shapes C5 names as rejected: rank not 1 or 2, first dimension not 4,
\* or rank 2 with second dimension not 2.
RejectedShape(sh) ==
  \/ Len(sh) \notin {1, 2}
  \/ sh[1] # 4
  \/ (Len(sh) = 2 /\ sh[2] # 2)

\* C5: DataFormatVecPermute::Compile reports an invalid-shape error and
\* sets no output for every rejected shape, and reports no error and sets
\* exactly one output for every input of shape [4] or [4,2].
C5_ShapeValidation ==
  VecPermuteCompiled =>
    /\ RejectedShape(input.shape) =>
         /\ status = InvalidArgument
         /\ outputs = <<>>
         /\ dst_indices = NoIndices
    /\ input.shape \in {<<4>>, <<4, 2>>} =>
         /\ status = OK
         /\ Len(outputs) = 1
    /\ RejectedShape(input.shape) \/ input.shape \in {<<4>>, <<4, 2>>}

C5_Witness ==
  /\ VecPermuteCompiled
  /\ input.shape = <<4, 2, 1>>
  /\ status = InvalidArgument
  /\ outputs = <<>>

\* C6 as stated: DataFormatDimMap never fails at Compile time and for every
\* input element, of either width, the normalized index lies in [0,4).
C6_IndexAlwaysInRange ==
  DimMapCompiled =>
    /\ status = OK
    /\ \A k \in 1..Len(src_indices) : src_indices[k] \in Pos

\* C6 amended: DataFormatDimMap never fails at Compile time; the normalized
\* index lies in [0,4) for every element whose int32 conversion c has
\* -4 <= c <= INT32_MAX - 4, and lies in (-4,4) for every element.
C6_IndexInRangeFromMinusFour ==
  DimMapCompiled =>
    /\ status = OK
    /\ Len(outputs) = 1
    /\ Len(src_indices) = Len(input.data)
    /\ \A k \in 1..Len(src_indices) :
         /\ src_indices[k] \in -3..3
         /\ (input.data[k].lo >= -4 /\ input.data[k].lo <= INT32_MAX - 4) =>
              src_indices[k] \in Pos

C6_Witness ==
  /\ DimMapCompiled
  /\ input.dtype = DT_INT64
  /\ input.data = << [hi |-> 0, lo |-> -1] >>
  /\ src_indices = <<3>>
  /\ status = OK

\* C7: permuting a valid input with the kernel (src=A, dst=B) and then
\* with the kernel (src=B, dst=A) reproduces the input.
C7_RoundTrip ==
  pc = "reverse_compiled" =>
    /\ reverse_status = OK
    /\ Len(reverse_outputs) = 1
    /\ reverse_outputs[1] = input

C7_Witness ==
  /\ pc = "reverse_compiled"
  /\ src_format = NHWC /\ dst_format = HWCN
  /\ Ints(input) = <<10, 20, 30, 40>>
  /\ Ints(outputs[1]) = <<20, 30, 40, 10>>
  /\ Ints(reverse_outputs[1]) = <<10, 20, 30, 40>>

\* C8: for 4-symbol src and dst that are permutations of each other, the
\* table derived for (dst, src) composed with the table derived for
\* (src, dst) is the identity on {0,1,2,3}.
C8_DeriveInverse ==
  (op = DimMap /\ pc = "constructed"
   /\ IsPermutationOf(src_format, dst_format)) =>
    LET back == DataFormatDimMapOp(dst_format, src_format)
    IN  /\ back.status = OK
        /\ \A i \in Pos : back.dst_idx[dst_idx[i]] = i

\* C9: when src_format or dst_format does not have length 4, construction
\* of either kernel fails with an invalid-format error before any symbol
\* of src_format is matched against dst_format: dst_idx keeps -1 in every
\* position and the permutation check is not reached.
C9_LengthCheckedFirst ==
  (pc # "start"
   /\ (Len(src_format) # FormatLen \/ Len(dst_format) # FormatLen)) =>
    /\ pc = "construct_failed"
    /\ ctor.status = InvalidArgument
    /\ ctor.error # "not_a_permutation"
    /\ ctor.scanned = 0
    /\ dst_idx = InitDstIdx

C9_Witness ==
  /\ pc = "construct_failed"
  /\ op = DimMap
  /\ src_format = NHWC
  /\ Len(dst_format) = 5
  /\ ctor.error = "dst_length"

\* C10: after a successful construction and passed shape checks, every
\* entry of the local dst_indices of DataFormatVecPermute::Compile has been
\* assigned before it is read, and the entries are a permutation of
\* {0,1,2,3}.
C10_DstIndicesAssigned ==
  (VecPermuteCompiled /\ status = OK) =>
    /\ DOMAIN dst_indices = Pos
    /\ {dst_indices[j] : j \in Pos} = Pos

C10_Witness ==
  /\ VecPermuteCompiled
  /\ status = OK
  /\ src_format = HWCN /\ dst_format = NCHW
  /\ DOMAIN dst_indices = Pos
  /\ [j \in 1..FormatLen |-> dst_indices[j - 1]] = <<3, 2, 0, 1>>
====
